---- MODULE Spec2Model ----
(***************************************************************************)
(* GoldenPCA (golden_pca.hpp): batch covariance computation followed by    *)
(* the shifted QR iteration that extracts eigenvalues and eigenvectors.    *)
(*                                                                         *)
(* Flat buffers are functions on 0..k-1, indexed as in the source.         *)
(* Sample values and covariance entries are integers.  The solver works    *)
(* on IEEE doubles, modelled by tagged values:                             *)
(*   <<"num", v>>  a double holding exactly the integer v                  *)
(*   <<"nan", 0>>  NaN (0/0, sqrt of a negative, anything with a NaN)      *)
(*   <<"unk", 0>>  a double the model does not track (an inexact result)   *)
(*   <<"lo", 0>>, <<"hi", 0>>  an untracked sub-diagonal entry of rq for   *)
(*                 which fabs(x) < kZeroThreshold is true, resp. false     *)
(* Arithmetic is exact on "num" where the double result is exact, NaN      *)
(* propagates as in IEEE 754, and every other result is "unk".  The        *)
(* threshold tests on untracked entries are resolved nondeterministically  *)
(* when the entry is produced.  Diagnostic printing is not modelled.       *)
(***************************************************************************)
EXTENDS Integers, FiniteSets, Sequences, TLC

\* ---- bounds of the model ------------------------------------------------
MaxSamples == 3
MaxFeatures == 3
MaxCount == 2
\* a_matrix never holds more than this many elements
MaxStorage == 6
\* in benchmark mode the loop counter is tracked exactly below IterCap and
\* modulo 2 from there on
IterCap == 4

\* values of the caller's sample matrices
Vals == {0, 1}

VARIABLES
  pc,                 \* position of the caller / of the running method
  args,               \* the constructor's arguments, until the next call
  batch_copies,       \* history: the batch was N >= 2 copies of one
                      \* samples x features matrix
  samples, features, matrix_count, benchmark_mode,
  a_matrix, covariance_matrix, eigenvalues, eigenvectors, iterations,
  matrix_index,       \* loop variable of ComputeEigenValuesAndVectors
  rq,                 \* working copy of the current covariance matrix
  iter,               \* the local int iterations
  converged,          \* the local bool converged
  sh                  \* locals of the last shift computation

vars == <<pc, args, batch_copies, samples, features, matrix_count,
          benchmark_mode, a_matrix, covariance_matrix, eigenvalues,
          eigenvectors, iterations, matrix_index, rq, iter, converged, sh>>

\* ---- doubles ------------------------------------------------------------
Num(v) == <<"num", v>>
NaN == <<"nan", 0>>
Unk == <<"unk", 0>>
Lo == <<"lo", 0>>
Hi == <<"hi", 0>>

IsNum(x) == x[1] = "num"
IsNaN(x) == x[1] = "nan"

\* Evaluation helpers: With(v, F) is F(v) with v evaluated once, and
\* Buffer(f) is the function f as an explicit table.
Only(S) == CHOOSE z \in S : TRUE
With(v, F(_)) == Only({F(x) : x \in {v}})
Buffer(f) == f @@ <<>>

AddV(x, y) ==
  IF IsNaN(x) \/ IsNaN(y) THEN NaN
  ELSE IF IsNum(x) /\ IsNum(y) THEN Num(x[2] + y[2])
  ELSE Unk
FAdd(x, y) == Only({AddV(a, b) : a \in {x}, b \in {y}})

SubV(x, y) ==
  IF IsNaN(x) \/ IsNaN(y) THEN NaN
  ELSE IF IsNum(x) /\ IsNum(y) THEN Num(x[2] - y[2])
  ELSE Unk
FSub(x, y) == Only({SubV(a, b) : a \in {x}, b \in {y}})

MulV(x, y) ==
  IF IsNaN(x) \/ IsNaN(y) THEN NaN
  ELSE IF IsNum(x) /\ IsNum(y) THEN Num(x[2] * y[2])
  ELSE Unk
FMul(x, y) == Only({MulV(a, b) : a \in {x}, b \in {y}})

IAbs(v) == IF v < 0 THEN -v ELSE v

\* x / y: 0/0 is NaN, nonzero/0 is an infinity (untracked), an inexact
\* quotient is untracked
DivV(x, y) ==
  IF IsNaN(x) \/ IsNaN(y) THEN NaN
  ELSE IF IsNum(x) /\ IsNum(y) THEN
    IF y[2] = 0 THEN (IF x[2] = 0 THEN NaN ELSE Unk)
    ELSE IF IAbs(x[2]) % IAbs(y[2]) = 0
      THEN Num((IF (x[2] < 0) = (y[2] < 0) THEN 1 ELSE -1)
               * (IAbs(x[2]) \div IAbs(y[2])))
      ELSE Unk
  ELSE Unk
FDiv(x, y) == Only({DivV(a, b) : a \in {x}, b \in {y}})

SqrtV(x) ==
  IF IsNaN(x) THEN NaN
  ELSE IF IsNum(x) THEN
    IF x[2] < 0 THEN NaN
    ELSE IF \E s \in 0..x[2] : s * s = x[2]
      THEN Num(CHOOSE s \in 0..x[2] : s * s = x[2])
      ELSE Unk
  ELSE Unk
FSqrt(x) == Only({SqrtV(a) : a \in {x}})

AbsV(x) == IF IsNum(x) THEN Num(IAbs(x[2])) ELSE x
FAbs(x) == Only({AbsV(a) : a \in {x}})

\* fabs(x) < kZeroThreshold (1e-8); false for NaN
BelowThreshold(x) ==
  Only({IF IsNum(a) THEN a[2] = 0 ELSE a = Lo : a \in {x}})

\* ((0 + t[0]) + t[1]) + ... + t[k-1]
RECURSIVE FSum(_, _)
FSum(t, k) == IF k = 0 THEN Num(0) ELSE FAdd(FSum(t, k - 1), t[k - 1])

\* ---- the constructor's arguments ----------------------------------------
Rows(m) == Cardinality(DOMAIN m)
Cols(m) == Cardinality(DOMAIN m[0])

Matrices(r, c) == [0..(r - 1) -> [0..(c - 1) -> Vals]]

\* the dimensions a caller may give its matrices for samples n, features p
Shapes(n, p) ==
  {<<n, p>>, <<n + 1, p>>, <<n, p + 1>>}
    \cup (IF n > 1 THEN {<<n - 1, p>>} ELSE {})
    \cup (IF p > 1 THEN {<<n, p - 1>>} ELSE {})

NoArgs == [n |-> 0, p |-> 0, count |-> 0, benchmark |-> FALSE,
           inputMatrices |-> <<>>]

DimsMatch(a) ==
  \A m \in DOMAIN a.inputMatrices :
    Rows(a.inputMatrices[m]) = a.n /\ Cols(a.inputMatrices[m]) = a.p

ZeroSh == [row |-> -1, ia |-> -1, ib |-> -1, ic |-> -1,
           a |-> Num(0), b |-> Num(0), c |-> Num(0), value |-> Num(0)]

Init ==
  /\ pc = "start"
  /\ \E n \in 1..MaxSamples, p \in 1..MaxFeatures, count \in 1..MaxCount :
       /\ n * p * count <= MaxStorage
       /\ \E shape \in Shapes(n, p), benchmark \in BOOLEAN :
            \E ms \in [0..(count - 1) -> Matrices(shape[1], shape[2])] :
              args = [n |-> n, p |-> p, count |-> count,
                      benchmark |-> benchmark, inputMatrices |-> ms]
  /\ batch_copies = FALSE
  /\ samples = 0 /\ features = 0 /\ matrix_count = 0
  /\ benchmark_mode = FALSE
  /\ a_matrix = <<>> /\ covariance_matrix = <<>>
  /\ eigenvalues = <<>> /\ eigenvectors = <<>> /\ iterations = <<>>
  /\ matrix_index = 0 /\ rq = <<>> /\ iter = 0 /\ converged = FALSE
  /\ sh = ZeroSh

\* ---- GoldenPCA::GoldenPCA -----------------------------------------------
\* vector::resize value-initialises: a buffer of k zeros
Zeros(k) == [i \in 0..(k - 1) |-> 0]
ZerosD(k) == [i \in 0..(k - 1) |-> Num(0)]

\* the cells input_mat[r][c], r < n, c < p, that lie outside input_mat
OutOfRange(input_mat, n, p) ==
  {rc \in (0..(n - 1)) \X (0..(p - 1)) :
     rc[1] >= Rows(input_mat) \/ rc[2] >= Cols(input_mat)}

\* a_matrix after lines 51-56: only a_matrix[r * p + c], r < n, c < p, is
\* assigned, from input_mat[r][c]; garbage stands for what a read outside
\* input_mat returns
FillAMatrix(input_mat, n, p, count, garbage) ==
  [i \in 0..(n * p * count - 1) |->
     IF i < n * p
       THEN IF <<i \div p, i % p>> \in DOMAIN garbage
              THEN garbage[<<i \div p, i % p>>]
              ELSE input_mat[i \div p][i % p]
       ELSE 0]

Construct ==
  /\ pc = "start"
  /\ \E input_mat \in {args.inputMatrices[0]} :
       \E garbage \in [OutOfRange(input_mat, args.n, args.p) -> Vals],
          crash \in (IF OutOfRange(input_mat, args.n, args.p) = {}
                       THEN {FALSE} ELSE BOOLEAN) :
         IF crash
           THEN /\ pc' = "crashed"
                /\ UNCHANGED <<samples, features, matrix_count,
                               benchmark_mode, a_matrix, covariance_matrix,
                               eigenvalues, eigenvectors, iterations>>
           ELSE /\ pc' = "constructed"
                /\ samples' = args.n
                /\ features' = args.p
                /\ benchmark_mode' = args.benchmark
                /\ matrix_count' = args.count
                /\ a_matrix' = FillAMatrix(input_mat, args.n, args.p,
                                           args.count, garbage)
                /\ covariance_matrix' = Zeros(args.p * args.p * args.count)
                /\ eigenvalues' = ZerosD(args.p * args.count)
                /\ eigenvectors' = ZerosD(args.p * args.p * args.count)
                /\ iterations' = ZerosD(args.count)
  /\ batch_copies' = (args.count >= 2 /\ DimsMatch(args) /\
                      \A m \in DOMAIN args.inputMatrices :
                        args.inputMatrices[m] = args.inputMatrices[0])
  /\ UNCHANGED <<args, matrix_index, rq, iter, converged, sh>>

\* ---- GoldenPCA::ComputeCovarianceIthMatrix ------------------------------
RECURSIVE DotProduct(_, _, _, _, _, _)
DotProduct(a, a_matrix_offset, feats, row, column, k) ==
  IF k = 0 THEN 0
  ELSE DotProduct(a, a_matrix_offset, feats, row, column, k - 1)
       + a[a_matrix_offset + (k - 1) * feats + row]
         * a[a_matrix_offset + (k - 1) * feats + column]

\* variant: the product divided by samples - 1, as the comment at lines
\* 68-70 describes the covariance
CovarianceEntry_Normalised(a, smpls, feats, i) ==
  LET matrix_index_ == i \div (feats * feats)
      row == (i % (feats * feats)) \div feats
      column == i % feats
      dot_product == DotProduct(a, matrix_index_ * smpls * feats, feats,
                                row, column, smpls)
  IN IF smpls > 1 THEN dot_product \div (smpls - 1) ELSE dot_product

\* element i of covariance_matrix after ComputeCovarianceIthMatrix ran for
\* the matrix i belongs to
CovarianceEntry(a, smpls, feats, i) ==
  LET matrix_index_ == i \div (feats * feats)
      row == (i % (feats * feats)) \div feats
      column == i % feats
  IN DotProduct(a, matrix_index_ * smpls * feats, feats, row, column, smpls)

ComputeCovarianceMatrix ==
  /\ pc = "constructed"
  /\ pc' = "covariance"
  /\ covariance_matrix' =
       [i \in DOMAIN covariance_matrix |->
          CovarianceEntry(a_matrix, samples, features, i)]
  /\ args' = NoArgs
  /\ UNCHANGED <<batch_copies, samples, features, matrix_count,
                 benchmark_mode, a_matrix, eigenvalues, eigenvectors,
                 iterations, matrix_index, rq, iter, converged, sh>>

\* ---- GoldenPCA::ComputeEigenValuesAndVectors --------------------------
\* the factor of the iteration limit features * features * 16
IterFactor == 16

\* a read of a buffer; outside the buffer the value is whatever lies there
Read(buf, i) == IF i \in DOMAIN buf THEN buf[i] ELSE Unk

ComputeEigenValuesAndVectors ==
  /\ pc = "covariance"
  /\ pc' = "solve"
  /\ matrix_index' = 0
  /\ UNCHANGED <<args, batch_copies, samples, features, matrix_count,
                 benchmark_mode, a_matrix, covariance_matrix, eigenvalues,
                 eigenvectors, iterations, rq, iter, converged, sh>>

\* lines 129-153: rq is the covariance matrix, the eigenvectors of this
\* entry are the identity, iterations = 0, converged = false
SolveInit ==
  /\ pc = "solve"
  /\ matrix_index < matrix_count
  /\ pc' = "loop"
  /\ LET offset == matrix_index * features * features
     IN /\ rq' = [k \in 0..(features * features - 1) |->
                    Num(covariance_matrix[offset + k])]
        /\ eigenvectors' =
             [x \in DOMAIN eigenvectors |->
                IF x >= offset /\ x < offset + features * features
                  THEN (IF (x - offset) \div features = (x - offset) % features
                          THEN Num(1) ELSE Num(0))
                  ELSE eigenvectors[x]]
  /\ iter' = 0
  /\ converged' = FALSE
  /\ UNCHANGED <<args, batch_copies, samples, features, matrix_count,
                 benchmark_mode, a_matrix, covariance_matrix, eigenvalues,
                 iterations, matrix_index, sh>>

\* lines 162-165
RowIsZero(rqm, f, row) ==
  \A col \in 0..(row - 1) : BelowThreshold(Read(rqm, row * f + col))

\* lines 160-170: the loop over row = features - 1 down to 1
RECURSIVE ScanFrom(_, _, _, _)
ScanFrom(rqm, f, row, shift_row) ==
  IF row < 1 THEN shift_row
  ELSE IF RowIsZero(rqm, f, row) THEN ScanFrom(rqm, f, row - 1, shift_row - 1)
  ELSE shift_row

\* variant: shift_row starts at features - 1
ScanShiftRow_FromLastRow(rqm, f) == ScanFrom(rqm, f, f - 1, f - 1)

ScanShiftRow(rqm, f) == ScanFrom(rqm, f, f - 1, f - 2)

\* lines 185-190: the shift from a, b, c
ShiftFrom(a, b, c, d) ==
  LET b_squared == FMul(b, b)
      d_squared == FMul(d, d)
      b_squared_signed ==
        IF IsNum(d) THEN (IF d[2] < 0 THEN FSub(Num(0), b_squared)
                                      ELSE b_squared)
        ELSE IF IsNaN(d) \/ IsNaN(b_squared) THEN b_squared
        ELSE Unk
  IN FSub(c, FDiv(b_squared_signed,
                  FAdd(FAbs(d), FSqrt(FAdd(d_squared, b_squared)))))

WilkinsonShift(a, b, c) ==
  Only({ShiftFrom(x, y, z, FDiv(FSub(x, z), Num(2))) :
          x \in {a}, y \in {b}, z \in {c}})

\* lines 156-191: shift_row, the three entries read and shift_value
ShiftLocals(rqm, f) ==
  With(ScanShiftRow(rqm, f), LAMBDA shift_row :
    IF shift_row >= 0
      THEN With([row |-> shift_row,
                 ia |-> shift_row + f * shift_row,
                 ib |-> shift_row + f * (shift_row + 1),
                 ic |-> (shift_row + 1) + f * (shift_row + 1),
                 a |-> Read(rqm, shift_row + f * shift_row),
                 b |-> Read(rqm, shift_row + f * (shift_row + 1)),
                 c |-> Read(rqm, (shift_row + 1) + f * (shift_row + 1)),
                 value |-> Num(0)],
                LAMBDA loc :
                  [loc EXCEPT !.value = WilkinsonShift(loc.a, loc.b, loc.c)])
      ELSE [ZeroSh EXCEPT !.row = shift_row])

\* lines 195-199: zero on the first iteration, 99% of the shift afterwards
\* (0.99 * x is exact only for x = 0)
AppliedShift(value, iterations_) ==
  IF iterations_ = 0 THEN Num(0)
  ELSE IF IsNaN(value) THEN NaN
  ELSE IF value = Num(0) THEN Num(0)
  ELSE Unk

\* lines 202-204 and 270-272: rq[row + features * row] -= / += shift_value
ShiftDiagonal(rqm, f, shift_value, sign) ==
  Buffer([x \in DOMAIN rqm |->
            IF x \div f = x % f
              THEN (IF sign < 0 THEN FSub(rqm[x], shift_value)
                                ELSE FAdd(rqm[x], shift_value))
              ELSE rqm[x]])

\* lines 225-235: project column i of q out of the columns j > i of rq
RECURSIVE ProjectOut(_, _, _, _, _, _)
ProjectOut(rqm, q, r, f, i, j) ==
  IF j >= f THEN [rq |-> rqm, r |-> r]
  ELSE
    With(FSum([k \in 0..(f - 1) |-> FMul(q[k * f + i], rqm[k * f + j])], f),
         LAMBDA dp :
    With(Buffer([x \in DOMAIN rqm |->
                   IF x % f = j
                     THEN FSub(rqm[x], FMul(dp, q[(x \div f) * f + i]))
                     ELSE rqm[x]]),
         LAMBDA rq_next :
    With(Buffer([r EXCEPT ![i * f + j] = dp]),
         LAMBDA r_next :
           ProjectOut(rq_next, q, r_next, f, i, j + 1))))

\* lines 213-236: modified Gram-Schmidt on the columns of rq
RECURSIVE GramSchmidt(_, _, _, _, _)
GramSchmidt(rqm, q, r, f, i) ==
  IF i >= f THEN [q |-> q, r |-> r]
  ELSE
    With(FSqrt(FSum([k \in 0..(f - 1) |->
                       FMul(rqm[k * f + i], rqm[k * f + i])], f)),
         LAMBDA rii :
    With(Buffer([x \in DOMAIN q |->
                   IF x % f = i THEN FDiv(rqm[x], rii) ELSE q[x]]),
         LAMBDA q_next :
    With(Buffer([r EXCEPT ![i * f + i] = rii]),
         LAMBDA r_next :
    With(ProjectOut(rqm, q_next, r_next, f, i, i + 1),
         LAMBDA pr :
           GramSchmidt(pr.rq, q_next, pr.r, f, i + 1)))))

\* lines 207-236: q and r start as zero matrices
QRDecomposition(rqm, f) ==
  With(Buffer(ZerosD(f * f)), LAMBDA zero :
    GramSchmidt(rqm, zero, zero, f, 0))

\* the f x f product of the matrix at offset a_off of a with b
MatMul(a, a_off, b, f) ==
  Buffer([x \in 0..(f * f - 1) |->
            FSum([k \in 0..(f - 1) |->
                    FMul(a[a_off + (x \div f) * f + k], b[k * f + (x % f)])],
                 f)])

\* variant: the check runs over col <= row and so reads the diagonal too
AllBelowThreshold_WithDiagonal(rqm, f) ==
  \A row \in 1..(f - 1) : \A col \in 0..row :
    BelowThreshold(rqm[row * f + col])

\* lines 275-282
AllBelowThreshold(rqm, f) ==
  \A row \in 1..(f - 1) : \A col \in 0..(row - 1) :
    BelowThreshold(rqm[row * f + col])

\* variant: the negation of benchmark_mode is missing
LimitExceeded_NegationDropped(iterations_, f, benchmark) ==
  (iterations_ > f * f * IterFactor) /\ benchmark

\* line 285
LimitExceeded(iterations_, f, benchmark) ==
  (iterations_ > f * f * IterFactor) /\ ~benchmark

\* line 284; in benchmark mode the count is kept modulo 2 from IterCap on
NextCount(iterations_, benchmark) ==
  IF benchmark /\ iterations_ >= IterCap THEN IterCap - 1
  ELSE iterations_ + 1

\* the rows of rq that hold an untracked sub-diagonal entry
UntrackedRows(rqm, f) ==
  {row \in 1..(f - 1) : \E col \in 0..(row - 1) : rqm[row * f + col] = Unk}

\* the untracked sub-diagonal entries of a row take the class chosen for it
Classify(rqm, f, cls) ==
  [x \in DOMAIN rqm |->
     IF (x % f) < (x \div f) /\ rqm[x] = Unk THEN cls[x \div f] ELSE rqm[x]]

\* lines 155-272: one pass of the body of the while loop, up to the new rq
IterationBody(rqm, evs, offset, f, iterations_) ==
  With(ShiftLocals(rqm, f), LAMBDA loc :
  With(AppliedShift(loc.value, iterations_), LAMBDA shift_value :
  With(ShiftDiagonal(rqm, f, shift_value, -1), LAMBDA shifted :
  With(QRDecomposition(shifted, f), LAMBDA qr :
  With(MatMul(evs, offset, qr.q, f), LAMBDA product :
  With(MatMul(qr.r, 0, qr.q, f), LAMBDA recomposed :
    [sh |-> loc,
     eigenvectors |->
       Buffer([x \in DOMAIN evs |->
                 IF x >= offset /\ x < offset + f * f
                   THEN product[x - offset]
                   ELSE evs[x]]),
     rq |-> ShiftDiagonal(recomposed, f, shift_value, 1)]))))))

\* lines 154-289: one iteration of the while loop
Iterate ==
  /\ pc = "loop"
  /\ \E body \in {IterationBody(rq, eigenvectors,
                                matrix_index * features * features,
                                features, iter)} :
       \E cls \in [UntrackedRows(body.rq, features) -> {Lo, Hi}] :
         \E new_rq \in {Classify(body.rq, features, cls)} :
           /\ sh' = body.sh
           /\ eigenvectors' = body.eigenvectors
           /\ rq' = new_rq
           /\ converged' = AllBelowThreshold(new_rq, features)
           /\ iter' = NextCount(iter, benchmark_mode)
           /\ pc' = IF AllBelowThreshold(new_rq, features)
                       \/ LimitExceeded(iter + 1, features, benchmark_mode)
                      THEN "post" ELSE "loop"
  /\ UNCHANGED <<args, batch_copies, samples, features, matrix_count,
                 benchmark_mode, a_matrix, covariance_matrix, eigenvalues,
                 iterations, matrix_index>>

\* variant: the count of the iterations before the last one
RecordedIterations_OffByOne(iterations_) == Num(iterations_ - 1)

\* line 294: the count stored for this entry
RecordedIterations(iterations_) == Num(iterations_)

\* lines 297-300: eigenvalue k of this entry is rq[k + features * k]
EigenvalueOf(rqm, f, k) == rqm[k + f * k]

\* lines 291-313: store the results of this entry, go to the next entry;
\* the locals of the loop body end here
Finish ==
  /\ pc = "post"
  /\ iterations' = [iterations EXCEPT
                      ![matrix_index] = RecordedIterations(iter)]
  /\ eigenvalues' =
       [x \in DOMAIN eigenvalues |->
          IF x \div features = matrix_index
            THEN EigenvalueOf(rq, features, x % features)
            ELSE eigenvalues[x]]
  /\ matrix_index' = matrix_index + 1
  /\ pc' = IF matrix_index + 1 < matrix_count THEN "solve" ELSE "done"
  /\ rq' = <<>> /\ iter' = 0 /\ converged' = FALSE /\ sh' = ZeroSh
  /\ UNCHANGED <<args, batch_copies, samples, features, matrix_count,
                 benchmark_mode, a_matrix, covariance_matrix, eigenvectors>>

\* inputs on which every double of the solve is tracked exactly: matching
\* dimensions and at most one non-zero feature per sample
ExactInput(a) ==
  /\ DimsMatch(a)
  /\ \A r \in DOMAIN a.inputMatrices[0] :
       Cardinality({c \in DOMAIN a.inputMatrices[0][r] :
                      a.inputMatrices[0][r][c] # 0}) <= 1

LiveInit == Init /\ ExactInput(args)

Next ==
  \/ Construct
  \/ ComputeCovarianceMatrix
  \/ ComputeEigenValuesAndVectors
  \/ SolveInit
  \/ Iterate
  \/ Finish

Spec == Init /\ [][Next]_vars

\* a sequential program always takes its next step
LiveSpec == LiveInit /\ [][Next]_vars /\ WF_vars(Next)

\* ---- properties ---------------------------------------------------------
IterationLimit == features * features * IterFactor

\* entry m is solved and its results are stored
Finished(m) ==
  pc \in {"solve", "loop", "post", "done"} /\ m < matrix_index

CovAt(m, i, j) == covariance_matrix[m * features * features + i * features + j]
AAt(m, k, c) == a_matrix[m * samples * features + k * features + c]

\* C1 (as claimed): outside benchmark mode the loop counter and every stored
\* iteration count are at most features * features * 16.
C1_CountWithinLimit ==
  ~benchmark_mode =>
    /\ iter <= IterationLimit
    /\ \A m \in DOMAIN iterations : iterations[m][2] <= IterationLimit

\* C1 (amended): outside benchmark mode the loop counter and every stored
\* iteration count are at most features * features * 16 + 1.
C1_CountWithinLimitPlusOne ==
  ~benchmark_mode =>
    /\ iter <= IterationLimit + 1
    /\ \A m \in DOMAIN iterations : iterations[m][2] <= IterationLimit + 1

C1_Witness ==
  /\ pc = "loop" /\ matrix_index = 1 /\ ~benchmark_mode
  /\ features = 2 /\ iter = IterationLimit
  /\ iterations[0] = Num(IterationLimit + 1)

\* C2: every solve loop that is entered is eventually left, in benchmark
\* mode as well and also when a column has norm zero.
C2_SolveTerminates == (pc = "loop") ~> (pc = "post")

\* C3: after construction the storage element m*(samples*features) +
\* r*features + c equals element (r, c) of the m-th input matrix.
C3_StorageHoldsBatch ==
  (pc = "constructed" /\ DimsMatch(args)) =>
    \A m \in 0..(matrix_count - 1), r \in 0..(samples - 1),
       c \in 0..(features - 1) :
      a_matrix[m * (samples * features) + r * features + c]
        = args.inputMatrices[m][r][c]

\* C4: when some input matrix does not have samples x features elements,
\* construction is rejected and no storage is filled.
C4_MismatchRejected ==
  (pc # "start" /\ ~DimsMatch(args)) => (pc = "rejected" /\ a_matrix = <<>>)

\* C5: for a batch of N copies of one sample matrix, once all three calls
\* have run every slot holds the covariance matrix, eigenvalues,
\* eigenvectors and iteration count of slot 0.
C5_SlotsIdentical ==
  (pc = "done" /\ batch_copies) =>
    \A m \in 0..(matrix_count - 1) :
      /\ \A x \in 0..(features * features - 1) :
           /\ covariance_matrix[m * features * features + x]
                = covariance_matrix[x]
           /\ eigenvectors[m * features * features + x] = eigenvectors[x]
      /\ \A k \in 0..(features - 1) :
           eigenvalues[m * features + k] = eigenvalues[k]
      /\ iterations[m] = iterations[0]

RECURSIVE ColumnProduct(_, _, _, _)
ColumnProduct(m, i, j, k) ==
  IF k = 0 THEN 0
  ELSE ColumnProduct(m, i, j, k - 1) + AAt(m, k - 1, i) * AAt(m, k - 1, j)

C7_AbortReported ==
  [][(pc = "post" /\ ~converged /\ ~benchmark_mode) =>
       /\ iter = IterationLimit + 1
       /\ matrix_index' = matrix_index + 1
       /\ pc' = (IF matrix_index + 1 < matrix_count THEN "solve" ELSE "done")
       /\ \A k \in 0..(features - 1) :
            eigenvalues'[k + matrix_index * features] = rq[k + features * k]
       /\ \A x \in DOMAIN eigenvalues :
            x \div features # matrix_index => eigenvalues'[x] = eigenvalues[x]
       /\ eigenvectors' = eigenvectors
       /\ iterations'[matrix_index] = Num(iter)]_vars

C7_Witness ==
  /\ pc = "loop" /\ matrix_index = 1 /\ ~benchmark_mode /\ iter = 0
  /\ iterations[0] = Num(IterationLimit + 1)
  /\ eigenvalues[0] = NaN

\* entry m of the covariance storage is diagonal with a non-zero diagonal
DiagonalNonZero(m) ==
  \A i \in 0..(features - 1), j \in 0..(features - 1) :
    IF i = j THEN CovAt(m, i, j) # 0 ELSE CovAt(m, i, j) = 0

C9_DegenerateShiftIsC ==
  (pc \in {"loop", "post"} /\ iter >= 1 /\ sh.row >= 0
     /\ sh.b = Num(0) /\ IsNum(sh.a) /\ sh.a = sh.c) =>
    sh.value = sh.c

\* rows of rq with a sub-diagonal entry that is not below the threshold
\* (fabs(x) < 1e-8 is false)
NonZeroRows(rqm, f) ==
  {row \in 1..(f - 1) :
     \E col \in 0..(row - 1) : ~BelowThreshold(rqm[row * f + col])}

Bottom(rows) == CHOOSE r \in rows : \A o \in rows : o <= r

\* C10: each iteration computes the shift from the 2x2 submatrix at
\* rows/columns (r-1, r), r the bottom-most row of rq with a sub-diagonal
\* entry not below 1e-8, with all three indices inside the matrix; when
\* there is no such row no shift is computed and the shift is 0.
C10_ShiftRowChoice ==
  [][pc = "loop" =>
       LET f == features
           nz == NonZeroRows(rq, f)
       IN IF nz # {}
            THEN LET r == Bottom(nz)
                 IN /\ sh'.row = r - 1
                    /\ sh'.ia = (r - 1) * f + (r - 1)
                    /\ sh'.ib \in {r * f + (r - 1), (r - 1) * f + r}
                    /\ sh'.ic = r * f + r
                    /\ {sh'.ia, sh'.ib, sh'.ic} \subseteq 0..(f * f - 1)
                    /\ sh'.a = rq[sh'.ia] /\ sh'.b = rq[sh'.ib]
                    /\ sh'.c = rq[sh'.ic]
            ELSE /\ sh'.row < 0
                 /\ sh'.value = Num(0)]_vars

C10_Witness ==
  /\ pc = "loop" /\ features = 3 /\ iter = 1
  /\ sh.row = 0 /\ sh.ia = 0 /\ sh.ib = 3 /\ sh.ic = 4
  /\ sh.b = Num(1)
====
